---------------------------- MODULE Spec2Model ----------------------------
(***************************************************************************)
(* A model of the authorization layer of oauthenticator:                   *)
(*   - CILogonOAuthenticator: user_info_to_username and check_allowed      *)
(*     (src/oauthenticator/cilogon.py),                                    *)
(*   - GitHubOAuthenticator: _check_membership_allowed_organizations,      *)
(*     _paginated_fetch and check_allowed (src/oauthenticator/github.py).  *)
(*                                                                         *)
(* Python strings are sequences of tokens (a token is one character or an  *)
(* atomic run of characters), Python dicts are functions whose DOMAIN is   *)
(* the set of keys that are present, Python lists are sequences.           *)
(***************************************************************************)
EXTENDS Naturals, Sequences, FiniteSets, TLC

VARIABLES
    \* ---- CILogonOAuthenticator configuration (traitlets) ----
    allowed_idps,                 \* dict: entity id -> policy dict
    allowed_users,                \* set of usernames
    additional_username_claims,   \* list of claim names
    allowed_organizations,        \* GitHubOAuthenticator: set of org and org:team entries
    \* ---- one CILogon login ----
    cl_pc,                        \* "idle" | "done"
    user_info,                    \* the claims dict of the login
    username,                     \* the username handed to check_allowed
    auth_model,                   \* the auth model handed to check_allowed
    username_claims,              \* the candidate list user_info_to_username built
    result,                       \* how the call ended (returned value or raised error)
    returned,                     \* the username user_info_to_username returned, or None
    log,                          \* the messages written with self.log.error
    \* ---- one GitHub membership check ----
    mb_pc,                        \* "idle" | "fetching" | "done"
    org_team,                     \* the allowed_organizations entry being checked
    requests,                     \* the URLs of the GETs issued, in order
    resp,                         \* the response in hand
    mb_result,                    \* how the membership check ended
    \* ---- one paginated fetch ----
    pf_pc,                        \* "idle" | "fetching" | "received" | "done" | "raised"
    pf_error,                     \* the error _paginated_fetch raised, "" for none
    url,                          \* local url
    content,                      \* local content
    n_gets,                       \* number of GETs issued (counted up to MaxPages + 1)
    served,                       \* the pages received: <<url, body>>, the first MaxPages
    \* ---- the GitHub logins in progress, each a function of the login ----
    gh_pc,                        \* "start" | "paging" | "idle" | "fetching" | "done" | "failed"
    gh_url,                       \* local url of _paginated_fetch
    gh_content,                   \* local content of _paginated_fetch
    gh_gets,                      \* the page GETs issued
    gh_username,                  \* the username handed to check_allowed
    gh_auth_model,                \* the auth model handed to check_allowed
    gh_base,                      \* what super().check_allowed returned
    gh_order,                     \* the order in which the for loop visits the set
    gh_idx,                       \* the position of the loop in gh_order
    gh_requests,                  \* the membership GETs issued: [url, token]
    gh_answers,                   \* what the membership checks returned, in order
    gh_result,                    \* how check_allowed ended
    gh_log,                       \* the messages written with self.log.warning
    \* ---- one assignment of allowed_idps ----
    va_pc,                        \* "idle" | "done"
    va_proposal,                  \* the proposed dict: its items, in order
    va_result,                    \* "returned", or the error the validator raised
    va_log                        \* the messages written with self.log.error

cfg_vars == <<allowed_idps, allowed_users, additional_username_claims,
              allowed_organizations>>
cl_vars  == <<cl_pc, user_info, username, auth_model, username_claims, result,
              returned, log>>
mb_vars  == <<mb_pc, org_team, requests, resp, mb_result>>
pf_vars  == <<pf_pc, pf_error, url, content, n_gets, served>>
gh_vars  == <<gh_pc, gh_url, gh_content, gh_gets, gh_username, gh_auth_model, gh_base, gh_order, gh_idx,
              gh_requests, gh_answers, gh_result, gh_log>>
va_vars  == <<va_pc, va_proposal, va_result, va_log>>
other_vars == <<gh_vars, va_vars>>
vars     == <<cfg_vars, cl_vars, mb_vars, pf_vars, other_vars>>

---------------------------------------------------------------------------
(* Bounds of the model.                                                    *)

\* longest claim value and username, in tokens
MaxLen == 3
\* longest allowed_organizations entry, in tokens
MaxOrgLen == 3
\* pages whose requests and bodies are recorded; later pages are empty
MaxPages == 3
\* most items on one page
MaxPageSize == 2
\* logins in progress at the same time
NLogins == 2
\* most entries of allowed_organizations
MaxOrgs == 2
\* most entries of a proposed allowed_idps
MaxIdps == 2
\* most pages of the teams of one of the concurrent logins
MaxLoginPages == 2

---------------------------------------------------------------------------
(* Python values.                                                          *)

\* None where a string is expected
NoVal == <<"None">>
\* None where a list of strings is expected
NoList == <<NoVal>>
\* None where a dict is expected
NoDict == [None |-> TRUE]

\* all strings over alphabet A of at most n tokens
Strings(A, n) == UNION {[1..k -> A] : k \in 0..n}

\* d.get(k), for a dict of strings
DictGet(d, k, default) == IF k \in DOMAIN d THEN d[k] ELSE default

\* position of the first token t of s, 0 when there is none
RECURSIVE FindFrom(_, _, _)
FindFrom(s, t, i) ==
    IF i > Len(s) THEN 0
    ELSE IF s[i] = t THEN i
    ELSE FindFrom(s, t, i + 1)

\* s.split(sep, 1): a list of one or two strings
SplitOnce(s, sep) ==
    LET i == FindFrom(s, sep, 1)
    IN  IF i = 0 THEN <<s>>
        ELSE <<SubSeq(s, 1, i - 1), SubSeq(s, i + 1, Len(s))>>

\* the pieces of s between the separators, from position start on
RECURSIVE SplitFrom(_, _, _)
SplitFrom(s, sep, start) ==
    \* the position is bound once, not evaluated anew at each use
    CHOOSE pieces \in
        {IF i = 0 THEN <<SubSeq(s, start, Len(s))>>
         ELSE <<SubSeq(s, start, i - 1)>> \o SplitFrom(s, sep, i + 1)
            : i \in {FindFrom(s, sep, start)}} : TRUE

\* s.split(sep): the list of the pieces between the separators
SplitAll(s, sep) == SplitFrom(s, sep, 1)

\* x in list
InList(x, list) == \E i \in 1..Len(list) : list[i] = x

---------------------------------------------------------------------------
(* CILogonOAuthenticator: configuration.                                   *)

\* the key of the user info in auth_state
user_auth_state_key == "cilogon_user"

\* the default of the username_claim trait
username_claim == "eppn"

\* entity ids: two that a table may hold, one that no table holds
IdpA == <<"https", ":", "//idp.a/shibboleth">>
IdpB == <<"https", ":", "//idp.b/authorize">>
IdpC == <<"https", ":", "//idp.c/other">>
EntityIds == {IdpA, IdpB, IdpC}

\* the tokens of claim values and usernames
ClaimAlphabet == {"u", "@"}
ClaimValues == Strings(ClaimAlphabet, MaxLen)

\* the claims a username can be read from
UsernameClaimNames == {"eppn", "email"}

\* the names of all claims, in Python's string order
ClaimOrder == <<"email", "eppn", "idp">>

\* sorted(d.keys())
SortedKeys(d) == SelectSeq(ClaimOrder, LAMBDA k : k \in DOMAIN d)

\* the username_derivation dicts the schema accepts
UsernameDerivations ==
    {[k \in {"username_claim"} |-> c] : c \in UsernameClaimNames}
    \cup {[k \in {"username_claim", "action", "domain"} |->
              CASE k = "username_claim" -> c
                [] k = "action" -> "strip_idp_domain"
                [] k = "domain" -> <<"u">>] : c \in UsernameClaimNames}
    \cup {[k \in {"username_claim", "action", "prefix"} |->
              CASE k = "username_claim" -> c
                [] k = "action" -> "prefix"
                [] k = "prefix" -> <<"gh">>] : c \in UsernameClaimNames}

\* the values of allowed_domains
AllowedDomainsLists == {<<>>, << <<"u">> >>, << <<"u">>, <<"u", "u">> >>}

\* the policy of one identity provider
Policy(ud, domains) ==
    IF domains = NoList
    THEN [k \in {"username_derivation"} |-> ud]
    ELSE [k \in {"username_derivation", "allowed_domains"} |->
              IF k = "username_derivation" THEN ud ELSE domains]

Policies(uds, lists) == {Policy(ud, dl) : ud \in uds, dl \in lists}

\* the policy IdpB has in every table that holds it
PolicyB == Policy([k \in {"username_claim"} |-> "eppn"], NoList)

\* tables: none, IdpA alone, or IdpA and IdpB
Tables(policies) ==
    {<<>>}
    \cup {[e \in {IdpA} |-> p] : p \in policies}
    \cup {[e \in {IdpA, IdpB} |-> IF e = IdpA THEN p ELSE PolicyB] : p \in policies}

\* the claims dicts of a login
UserInfos ==
    UNION {
        {[k \in keys |-> IF k = "idp" THEN i ELSE IF k = "eppn" THEN e ELSE m] :
            i \in EntityIds, e \in ClaimValues, m \in ClaimValues}
        : keys \in SUBSET {"idp", "eppn", "email"}}


\* the usernames handed to check_allowed, and the allowed_users sets
Usernames == {<<"u">>, <<"u", "@", "u">>}
AllowedUsersSets == {{}, {<<"u">>}}

\* the auth models handed to check_allowed: None, or admin flag and auth state
AuthModels ==
    {NoDict}
    \cup {[admin |-> a, auth_state |-> [cilogon_user |-> ui]] :
             a \in BOOLEAN, ui \in UserInfos}

---------------------------------------------------------------------------
(* CILogonOAuthenticator: the username of a login.                         *)

\* a call that returned val, and a call that raised exc
Returned(val) == [exc |-> "", val |-> val]
Raised(exc, val) == [exc |-> exc, val |-> val]

\* a bug: only None counts as no value ("is None" for "not")
Truthy_is_not_none(x) == x # NoVal

\* bool(x) of a string or None
Truthy(x) == x # NoVal /\ x # <<>>

\* a bug: the provider's claim is put before the default list, not in its place
_get_final_username_claim_list_extend(ui) ==
    LET claims == <<username_claim>> \o additional_username_claims
    IN  IF DOMAIN allowed_idps # {}
        THEN IF "idp" \notin DOMAIN ui
             THEN Raised("KeyError", <<>>)
             ELSE IF ui["idp"] \in DOMAIN allowed_idps
                  THEN Returned(
                         <<allowed_idps[ui["idp"]]["username_derivation"]["username_claim"]>>
                         \o claims)
                  ELSE Returned(claims)
        ELSE Returned(claims)

_get_final_username_claim_list(ui) ==
    LET claims == <<username_claim>> \o additional_username_claims
    IN  IF DOMAIN allowed_idps # {}
        THEN IF "idp" \notin DOMAIN ui
             THEN Raised("KeyError", <<>>)
             ELSE IF ui["idp"] \in DOMAIN allowed_idps
                  THEN Returned(
                         <<allowed_idps[ui["idp"]]["username_derivation"]["username_claim"]>>)
                  ELSE Returned(claims)
        ELSE Returned(claims)

\* the loop of _get_username_from_claim_list from the i-th claim on
RECURSIVE ScanClaims(_, _, _, _)
ScanClaims(ui, claims, i, found) ==
    IF i > Len(claims) THEN found
    ELSE LET value == DictGet(ui, claims[i], NoVal)
         IN  IF Truthy(value) THEN value
             ELSE ScanClaims(ui, claims, i + 1, value)

_get_username_from_claim_list(ui, claims) == ScanClaims(ui, claims, 1, NoVal)

\* lines 301-316: strip the domain or prefix the username
DeriveUsername(ui, name) ==
    IF DOMAIN allowed_idps # {} /\ ui["idp"] \in DOMAIN allowed_idps
    THEN LET username_derivation == allowed_idps[ui["idp"]]["username_derivation"]
             action == IF "action" \in DOMAIN username_derivation
                       THEN username_derivation["action"] ELSE "None"
         IN  IF action = "strip_idp_domain" THEN SplitOnce(name, "@")[1]
             ELSE IF action = "prefix"
                  THEN username_derivation["prefix"] \o <<":">> \o name
             ELSE name
    ELSE name

\* [exc, val, claims, log]: the error raised or the username returned, the
\* candidate list, and the messages logged
user_info_to_username(ui) ==
    LET list == _get_final_username_claim_list(ui)
    IN  IF list.exc # ""
        THEN [exc |-> list.exc, val |-> NoVal, claims |-> <<>>, log |-> <<>>]
        ELSE LET name == _get_username_from_claim_list(ui, list.val)
             IN  IF ~Truthy(name)
                 THEN [exc |-> "HTTPError500", val |-> NoVal, claims |-> list.val,
                       log |-> <<[attempted |-> list.val, keys |-> SortedKeys(ui)]>>]
                 ELSE [exc |-> "", val |-> DeriveUsername(ui, name),
                       claims |-> list.val, log |-> <<>>]

---------------------------------------------------------------------------
(* CILogonOAuthenticator.check_allowed.                                    *)

\* lines 356-368: the domain of the untransformed username against allowed_domains
CheckDomain(ui, allowed_domains) ==
    LET list == _get_final_username_claim_list(ui)
        username_with_domain == _get_username_from_claim_list(ui, list.val)
        parts == SplitOnce(username_with_domain, "@")
    IN  IF username_with_domain = NoVal THEN "AttributeError"
        ELSE IF Len(parts) < 2 THEN "IndexError"
        ELSE IF InList(parts[2], allowed_domains) THEN "True"
        ELSE "HTTPError403_domain_not_allowed"

\* lines 351-370 and 380: the login's identity provider is in the table
CheckIdpPolicy(name, ui) ==
    LET allowed_domains == DictGet(allowed_idps[ui["idp"]], "allowed_domains", NoList)
        has_domains == allowed_domains # NoList /\ allowed_domains # <<>>
    IN  IF allowed_users # {} \/ has_domains
        THEN IF name \in allowed_users THEN "True"
             ELSE IF has_domains THEN CheckDomain(ui, allowed_domains)
             ELSE "False"
        ELSE "True"

\* a bug: a listed user passes whatever the identity provider
CheckWithIdps_users_first(name, ui) ==
    IF "idp" \notin DOMAIN ui THEN "KeyError"
    ELSE IF ui["idp"] \notin DOMAIN allowed_idps
         THEN IF name \in allowed_users THEN "True"
              ELSE "HTTPError403_idp_not_allowed"
    ELSE CheckIdpPolicy(name, ui)

\* lines 340-370: allowed_idps is configured
CheckWithIdps(name, ui) ==
    IF "idp" \notin DOMAIN ui THEN "KeyError"
    ELSE IF ui["idp"] \notin DOMAIN allowed_idps
         THEN "HTTPError403_idp_not_allowed"
    ELSE CheckIdpPolicy(name, ui)

\* lines 339-380: the decision for a login that is not an admin
CheckPolicies(name, model) ==
    IF DOMAIN allowed_idps # {}
    THEN CheckWithIdps(name, model["auth_state"][user_auth_state_key])
    ELSE IF allowed_users # {}
    THEN IF name \in allowed_users THEN "True" ELSE "False"
    ELSE "True"

\* a bug: the admin flag is not looked at
check_allowed_no_admin(name, model) ==
    IF model = NoDict THEN "True"
    ELSE CheckPolicies(name, model)

\* a bug: without allowed_idps everyone is authorized
check_allowed_open(name, model) ==
    IF model = NoDict THEN "True"
    ELSE IF model["admin"] THEN "True"
    ELSE IF DOMAIN allowed_idps # {}
    THEN CheckWithIdps(name, model["auth_state"][user_auth_state_key])
    ELSE "True"

\* "True" and "False" for the returned value, else the error raised
check_allowed(name, model) ==
    IF model = NoDict THEN "True"
    ELSE IF model["admin"] THEN "True"
    ELSE CheckPolicies(name, model)

\* lines 343-345: the message self.log.error gets for a login whose identity
\* provider is not in allowed_idps
IdpNotAllowedMessage(selected_idp) ==
    <<"Trying to login from an identity provider that was not allowed ">> \o selected_idp

\* the messages check_allowed writes with self.log.error: one, before the 403
\* of lines 346-349
check_allowed_log(name, model) ==
    IF model = NoDict THEN <<>>
    ELSE IF model["admin"] THEN <<>>
    ELSE IF DOMAIN allowed_idps = {} THEN <<>>
    ELSE LET ui == model["auth_state"][user_auth_state_key]
         IN  IF "idp" \notin DOMAIN ui THEN <<>>
             ELSE IF ui["idp"] \notin DOMAIN allowed_idps
                  THEN <<IdpNotAllowedMessage(ui["idp"])>>
             ELSE <<>>

---------------------------------------------------------------------------
(* The states in which a part of the model is idle.                        *)

ConfigUnset ==
    /\ allowed_idps = <<>>
    /\ allowed_users = {}
    /\ additional_username_claims = <<"email">>
    /\ allowed_organizations = {}

LoginIdle ==
    /\ cl_pc = "idle"
    /\ user_info = <<>>
    /\ username = NoVal
    /\ auth_model = NoDict
    /\ username_claims = <<>>
    /\ result = "pending"
    /\ returned = NoVal
    /\ log = <<>>

MembershipIdle ==
    /\ mb_pc = "idle"
    /\ org_team = <<>>
    /\ requests = <<>>
    /\ resp = NoDict
    /\ mb_result = "pending"

PaginateIdle ==
    /\ pf_pc = "idle"
    /\ pf_error = ""
    /\ url = <<>>
    /\ content = <<>>
    /\ n_gets = 0
    /\ served = <<>>

\* the logins
Logins == 1..NLogins

GitHubIdle ==
    /\ gh_pc = [l \in Logins |-> "idle"]
    /\ gh_url = [l \in Logins |-> <<>>]
    /\ gh_content = [l \in Logins |-> <<>>]
    /\ gh_gets = [l \in Logins |-> 0]
    /\ gh_username = [l \in Logins |-> NoVal]
    /\ gh_auth_model = [l \in Logins |-> NoDict]
    /\ gh_base = [l \in Logins |-> "pending"]
    /\ gh_order = [l \in Logins |-> <<>>]
    /\ gh_idx = [l \in Logins |-> 0]
    /\ gh_requests = [l \in Logins |-> <<>>]
    /\ gh_answers = [l \in Logins |-> <<>>]
    /\ gh_result = [l \in Logins |-> "pending"]
    /\ gh_log = [l \in Logins |-> <<>>]

ValidateIdle ==
    /\ va_pc = "idle"
    /\ va_proposal = <<>>
    /\ va_result = "pending"
    /\ va_log = <<>>

OthersIdle == GitHubIdle /\ ValidateIdle

---------------------------------------------------------------------------
(* Specification of one call of user_info_to_username.                     *)

InitUsername ==
    /\ allowed_idps \in Tables(Policies(UsernameDerivations, {NoList}))
    /\ allowed_users = {}
    /\ additional_username_claims \in {<<>>, <<"email">>}
    /\ allowed_organizations = {}
    /\ LoginIdle /\ MembershipIdle /\ PaginateIdle /\ OthersIdle

UserInfoToUsername ==
    /\ cl_pc = "idle"
    /\ \E ui \in UserInfos :
          LET r == user_info_to_username(ui)
          IN  /\ user_info' = ui
              /\ username_claims' = r.claims
              /\ result' = IF r.exc = "" THEN "returned" ELSE r.exc
              /\ returned' = r.val
              /\ log' = log \o r.log
    /\ cl_pc' = "done"
    /\ UNCHANGED <<username, auth_model, cfg_vars, mb_vars, pf_vars, other_vars>>

SpecUsername == InitUsername /\ [][UserInfoToUsername]_vars

---------------------------------------------------------------------------
(* Specification of one call of CILogonOAuthenticator.check_allowed.       *)
(* check_allowed reads of a username_derivation only its username_claim,   *)
(* so the tables here carry no action.                                     *)

PlainDerivations == {ud \in UsernameDerivations : DOMAIN ud = {"username_claim"}}

InitCheckAllowed ==
    /\ allowed_idps \in Tables(Policies(PlainDerivations, {NoList} \cup AllowedDomainsLists))
    /\ allowed_users \in AllowedUsersSets
    /\ additional_username_claims = <<"email">>
    /\ allowed_organizations = {}
    /\ LoginIdle /\ MembershipIdle /\ PaginateIdle /\ OthersIdle

CheckAllowed ==
    /\ cl_pc = "idle"
    /\ \E name \in Usernames, model \in AuthModels :
          /\ username' = name
          /\ auth_model' = model
          /\ result' = check_allowed(name, model)
          /\ log' = log \o check_allowed_log(name, model)
    /\ cl_pc' = "done"
    /\ UNCHANGED <<user_info, username_claims, returned, cfg_vars, mb_vars, pf_vars,
                   other_vars>>

SpecCheckAllowed == InitCheckAllowed /\ [][CheckAllowed]_vars

---------------------------------------------------------------------------
(* GitHubOAuthenticator: the REST API and what it answers.                 *)

\* the default of the github_api trait
github_api == <<"https://api.github.com">>

\* the GitHub usernames of the logins
GitHubUsernames == {<<"octocat">>, <<"hubot">>}

\* allowed_organizations entries: org, org:team, and malformed ones
OrgAlphabet == {"o", ":"}
OrgTeams == Strings(OrgAlphabet, MaxOrgLen) \ {<<>>}

\* the status codes of the membership endpoints (599: no answer in time)
StatusCodes == {204, 200, 302, 401, 403, 404, 500, 599}

\* JSON string literals
JsonStrings == {"\"message\"", "\"Not Found\"", "\"x\""}

\* the bodies of the answers: none, empty, HTML, and JSON texts
BodyTexts ==
    {NoVal, <<>>, <<"<html>">>, <<"{">>,
     <<"{", "}">>,
     <<"{", "\"message\"", ":", "\"Not Found\"", "}">>,
     <<"{", "\"x\"", ":", "\"x\"", "}">>,
     <<"[", "]">>, <<"null">>, <<"\"x\"">>, <<"1">>}

\* json.loads of a text: [exc, type, val]
json_loads(text) ==
    CASE text = <<"null">> -> [exc |-> "", type |-> "NoneType", val |-> <<>>]
      [] text = <<"1">> -> [exc |-> "", type |-> "int", val |-> <<>>]
      [] Len(text) = 1 /\ text[1] \in JsonStrings ->
            [exc |-> "", type |-> "str", val |-> <<>>]
      [] text = <<"[", "]">> -> [exc |-> "", type |-> "list", val |-> <<>>]
      [] text = <<"{", "}">> -> [exc |-> "", type |-> "dict", val |-> <<>>]
      [] /\ Len(text) = 5 /\ text[1] = "{" /\ text[2] \in JsonStrings /\ text[3] = ":"
         /\ text[4] \in JsonStrings /\ text[5] = "}" ->
            [exc |-> "", type |-> "dict", val |-> [k \in {text[2]} |-> text[4]]]
      [] OTHER -> [exc |-> "ValueError", type |-> "", val |-> <<>>]

---------------------------------------------------------------------------
(* GitHubOAuthenticator._check_membership_allowed_organizations.           *)

\* lines 267-276: [exc, url] the URL to ask, or the error of the unpacking
MembershipUrl(entry, name) ==
    IF InList(":", entry)
    THEN LET parts == SplitAll(entry, ":")
         IN  IF Len(parts) # 2 THEN Raised("ValueError", <<>>)
             ELSE Returned(github_api \o <<"/orgs/">> \o parts[1] \o <<"/teams/">>
                           \o parts[2] \o <<"/members/">> \o name)
    ELSE Returned(github_api \o <<"/orgs/">> \o entry \o <<"/members/">> \o name)

\* lines 287-299: "True", "False", or the error raised
MembershipAnswer(r) ==
    IF r.code = 204 THEN "True"
    ELSE LET resp_json == json_loads(IF r.body = NoVal THEN <<>> ELSE r.body)
         IN  IF resp_json.exc = "ValueError" THEN "False"
             ELSE IF resp_json.type # "dict" THEN "AttributeError"
             ELSE "False"

\* lines 265-286: the call up to its GET
MembershipRequest ==
    /\ mb_pc = "idle"
    /\ LET api_url == MembershipUrl(org_team, username)
       IN  IF api_url.exc # ""
           THEN /\ mb_pc' = "done"
                /\ mb_result' = api_url.exc
                /\ UNCHANGED requests
           ELSE /\ mb_pc' = "fetching"
                /\ requests' = Append(requests, api_url.val)
                /\ UNCHANGED mb_result
    /\ UNCHANGED <<org_team, resp, cfg_vars, cl_vars, pf_vars, other_vars>>

\* lines 279-299: the answer arrives and the call ends
MembershipResponse ==
    /\ mb_pc = "fetching"
    /\ \E code \in StatusCodes, body \in BodyTexts :
          LET r == [code |-> code, body |-> body]
          IN  /\ resp' = r
              /\ mb_result' = MembershipAnswer(r)
    /\ mb_pc' = "done"
    /\ UNCHANGED <<org_team, requests, cfg_vars, cl_vars, pf_vars, other_vars>>

InitMembership ==
    /\ ConfigUnset
    /\ cl_pc = "idle"
    /\ user_info = <<>>
    /\ username \in GitHubUsernames
    /\ auth_model = NoDict
    /\ username_claims = <<>>
    /\ result = "pending"
    /\ returned = NoVal
    /\ log = <<>>
    /\ mb_pc = "idle"
    /\ org_team \in OrgTeams
    /\ requests = <<>>
    /\ resp = NoDict
    /\ mb_result = "pending"
    /\ PaginateIdle /\ OthersIdle

SpecMembership == InitMembership /\ [][MembershipRequest \/ MembershipResponse]_vars

---------------------------------------------------------------------------
(* GitHubOAuthenticator._paginated_fetch.                                  *)

\* line 201: the URL update_auth_model starts from
TeamsUrl == github_api \o <<"/user/teams?per_page=100">>

\* the URLs the server names in its Link headers
Page1 == github_api \o <<"/user/teams?per_page=100&page=1">>
Page2 == github_api \o <<"/user/teams?per_page=100&page=2">>
Page3 == github_api \o <<"/user/teams?per_page=100&page=3">>

\* the URL in an <...> token of a Link header
Unbracket(token) ==
    CASE token = "<page1>" -> Page1
      [] token = "<page2>" -> Page2
      [] token = "<page3>" -> Page3

\* the key and the value of a parameter token of a Link header
ParamKey(token) == IF token = "title=\"x\"" THEN "title" ELSE "rel"
ParamValue(token) ==
    CASE token = "rel=\"next\"" -> "next"
      [] token = "rel=\"prev\"" -> "prev"
      [] token = "rel=\"last\"" -> "last"
      [] token = "title=\"x\"" -> "x"

\* the Link headers the server sends (the empty string among them)
LinkHeaders ==
    {<<>>,
     <<"<page2>", ";", "rel=\"next\"">>,
     <<"<page3>", ";", "rel=\"next\"">>,
     <<"<page1>", ";", "rel=\"prev\"">>,
     <<"<page2>">>,
     <<"<page3>", ";", "title=\"x\"", ";", "rel=\"next\"">>,
     <<"<page1>", ";", "rel=\"prev\"", ",", "<page3>", ";", "rel=\"next\"">>,
     <<"<page2>", ";", "rel=\"next\"", ",", "<page3>", ";", "rel=\"last\"">>,
     <<"<page3>", ";", "rel=\"last\"", ",", "<page1>", ";", "rel=\"prev\"">>}

\* the headers of a response: with or without Link
ResponseHeaders == {<<>>} \cup {[h \in {"Link"} |-> l] : l \in LinkHeaders}

\* the headers of the answers whose body is no array: no Link, or a Link to
\* a next page
ErrorResponseHeaders == {<<>>, [h \in {"Link"} |-> <<"<page2>", ";", "rel=\"next\"">>]}

\* the JSON array of n items that the page at u holds; an item is written
\* <<u, i>>, and a key k of an object <<k, 0>>
PageBody(u, n) == [i \in 1..n |-> <<u, i>>]

\* the bodies a server answers with: json is the type json.loads gives
\* ("invalid" when the text is no JSON, as an empty body or an HTML page;
\* "undecodable" when the bytes are no UTF-8 text, so that there is nothing
\* for json.loads to read), body the elements that iterating over the value
\* yields (the keys of an object).  The bodies that are no array are
\* {"message": ...}, null, 1, a text that is no JSON and bytes that are no
\* UTF-8.
PageBodies(u) ==
    {[json |-> "list", body |-> PageBody(u, n)] : n \in 0..MaxPageSize}
    \cup {[json |-> "dict", body |-> <<<<<<"message">>, 0>>>>],
          [json |-> "NoneType", body |-> <<>>],
          [json |-> "int", body |-> <<>>],
          [json |-> "invalid", body |-> <<>>],
          [json |-> "undecodable", body |-> <<>>]}

\* lines 226-227: resp.body.decode(), json.loads of the text and what
\* content += takes from the value: bytes that are no UTF-8 raise
\* UnicodeDecodeError, no JSON raises JSONDecodeError, null and a number
\* raise TypeError
PageLoad(r) ==
    IF r.json = "undecodable" THEN Raised("UnicodeDecodeError", <<>>)
    ELSE IF r.json = "invalid" THEN Raised("JSONDecodeError", <<>>)
    ELSE IF r.json \in {"NoneType", "int"} THEN Raised("TypeError", <<>>)
    ELSE Returned(r.body)

\* the parameters of a link from the i-th token on: "; key=value" each, a
\* later one replacing an earlier one of the same key
RECURSIVE LinkParams(_, _, _)
LinkParams(link, piece, i) ==
    IF i > Len(piece) THEN link
    ELSE IF piece[i] = ";" THEN LinkParams(link, piece, i + 1)
    ELSE LinkParams((ParamKey(piece[i]) :> ParamValue(piece[i])) @@ link, piece, i + 1)

\* one link of a Link header: "<url>" and then its parameters
ParseLink(piece) == LinkParams("url" :> Unbracket(piece[1]), piece, 2)

\* requests.utils.parse_header_links: the list of the links of a header
parse_header_links(value) ==
    IF value = <<>> THEN <<>>
    ELSE LET pieces == SplitAll(value, ",")
         IN  [i \in 1..Len(pieces) |-> ParseLink(pieces[i])]

\* a bug: the first link is followed, whatever its relation
NextUrl_any_rel(links, i) ==
    IF i > Len(links) THEN NoVal
    ELSE links[i]["url"]

\* lines 238-243: the url of the first link with rel "next", from the i-th on
RECURSIVE NextUrl(_, _)
NextUrl(links, i) ==
    IF i > Len(links) THEN NoVal
    ELSE IF DictGet(links[i], "rel", "None") = "next" THEN links[i]["url"]
    ELSE NextUrl(links, i + 1)

\* lines 230-243: next_url, None without a Link header or a "next" link
NextPage(r) ==
    LET links_header == DictGet(r.headers, "Link", NoVal)
    IN  IF ~Truthy(links_header) THEN NoVal
        ELSE CHOOSE u \in {NextUrl(links, 1) : links \in {parse_header_links(links_header)}} :
                 TRUE

\* a bug: a page is put in front of the pages fetched before
Accumulate_prepend(list, resp_json) == resp_json \o list

\* line 227: content += resp_json
Accumulate(list, resp_json) == list \o resp_json

\* the GET of line 217 is issued: counted, and logged while the log has room
IssueGet(u) ==
    /\ n_gets' = IF n_gets <= MaxPages THEN n_gets + 1 ELSE n_gets
    /\ requests' = IF Len(requests) < MaxPages THEN Append(requests, u) ELSE requests

\* lines 214-224: the call up to its first GET
PaginatedFetchStart ==
    /\ pf_pc = "idle"
    /\ url' = TeamsUrl
    /\ content' = <<>>
    /\ IssueGet(TeamsUrl)
    /\ pf_pc' = "fetching"
    /\ UNCHANGED <<pf_error, served, resp, org_team, mb_pc, mb_result, cfg_vars, cl_vars,
                   other_vars>>

\* lines 217-224: the GET in flight is answered with a body and, maybe, a
\* Link header
HttpRespond ==
    /\ pf_pc = "fetching"
    /\ \E b \in PageBodies(url), headers \in ResponseHeaders :
          /\ n_gets > MaxPages => b.body = <<>>
          /\ b.json # "list" => headers \in ErrorResponseHeaders
          /\ resp' = [body |-> b.body, json |-> b.json, headers |-> headers]
    /\ pf_pc' = "received"
    /\ UNCHANGED <<pf_error, url, content, n_gets, requests, served, org_team, mb_pc,
                   mb_result, cfg_vars, cl_vars, other_vars>>

\* lines 217-224: the GET in flight fails (an error status, a timeout, no
\* connection): httpfetch raises, and so does _paginated_fetch
HttpFail ==
    /\ pf_pc = "fetching"
    /\ pf_pc' = "raised"
    /\ pf_error' = "HTTPClientError"
    /\ UNCHANGED <<url, content, n_gets, requests, served, resp, org_team, mb_pc,
                   mb_result, cfg_vars, cl_vars, other_vars>>

\* lines 226-251: the body is loaded and added, and the next page is asked
\* for or the call returns; a body that cannot be loaded or added ends the
\* call with its error
PaginatedFetchResume ==
    /\ pf_pc = "received"
    /\ \E resp_json \in {PageLoad(resp)} :
          IF resp_json.exc # ""
          THEN /\ pf_pc' = "raised"
               /\ pf_error' = resp_json.exc
               /\ UNCHANGED <<content, served, url, n_gets, requests>>
          ELSE /\ content' = Accumulate(content, resp_json.val)
               /\ served' = IF Len(served) < MaxPages
                            THEN Append(served, [url |-> url, body |-> resp_json.val])
                            ELSE served
               /\ UNCHANGED pf_error
               /\ \E next_url \in {NextPage(resp)} :
                     IF next_url = NoVal
                     THEN /\ pf_pc' = "done"
                          /\ UNCHANGED <<url, n_gets, requests>>
                     ELSE /\ url' = next_url
                          /\ IssueGet(next_url)
                          /\ pf_pc' = "fetching"
    /\ UNCHANGED <<resp, org_team, mb_pc, mb_result, cfg_vars, cl_vars, other_vars>>

InitPaginate ==
    /\ ConfigUnset /\ LoginIdle /\ MembershipIdle /\ PaginateIdle /\ OthersIdle

NextPaginate == PaginatedFetchStart \/ HttpRespond \/ HttpFail \/ PaginatedFetchResume

\* the call is started, every GET is answered or fails (the HTTP client
\* bounds the wait) and the coroutine is resumed by the event loop
SpecPaginate ==
    /\ InitPaginate
    /\ [][NextPaginate]_vars
    /\ WF_vars(NextPaginate)

---------------------------------------------------------------------------
(* GitHubOAuthenticator.check_allowed, for the logins in progress.  A      *)
(* login runs up to its next await in one step; the awaits are the         *)
(* membership GETs.                                                        *)

\* the entries an allowed_organizations is made of: an organization, a
\* longer organization name, a team, and an entry with two ':'
OrgPool == {<<"o">>, <<"o", "o">>, <<"o", ":", "o">>, <<"o", ":", ":">>}
OrgSets == {S \in SUBSET OrgPool : Cardinality(S) <= MaxOrgs}

\* the orders in which a for loop can visit a set
Orders(S) ==
    {s \in [1..Cardinality(S) -> S] : \A i, j \in DOMAIN s : i # j => s[i] # s[j]}

\* the access token of a login
AccessToken(l) == <<"token", l>>

\* the auth models check_allowed is called with for login l: None, or a
\* model with the admin flag and the token response of the login
GitHubAuthModels(l) ==
    {NoDict} \cup
    {[admin |-> a,
      auth_state |-> [token_response |-> [access_token |-> AccessToken(l),
                                          token_type |-> "bearer"]]] :
        a \in BOOLEAN}

\* super().check_allowed, the base decision: no auth model allows, the admin
\* flag allows, a configured allowed_users decides, nothing configured allows
BaseCheckAllowed(name, model) ==
    IF model = NoDict THEN "True"
    ELSE IF model["admin"] THEN "True"
    ELSE IF allowed_users # {}
         THEN (IF name \in allowed_users THEN "True" ELSE "False")
    ELSE "True"

\* the local state of check_allowed when it returns or raises
Ended(i, reqs, outcome, warned) ==
    [pc |-> "done", idx |-> i, requests |-> reqs, result |-> outcome, warned |-> warned]

\* lines 146-148 with 265-286: the membership check of entry i up to its GET
CheckEntry(name, token, order, i, reqs) ==
    LET api_url == MembershipUrl(order[i], name)
    IN  IF api_url.exc # ""
        THEN Ended(i, reqs, api_url.exc, FALSE)
        ELSE [pc |-> "fetching", idx |-> i,
              requests |-> Append(reqs, [url |-> api_url.val, token |-> token]),
              result |-> "pending", warned |-> FALSE]

\* a loop that goes on after a match, and allows at the last entry
NextEntry_no_short_circuit(name, token, order, i, reqs, answer) ==
    IF answer \notin {"True", "False"} THEN Ended(i, reqs, answer, FALSE)
    ELSE IF i < Len(order) THEN CheckEntry(name, token, order, i + 1, reqs)
    ELSE IF answer = "True" THEN Ended(i, reqs, "True", FALSE)
    ELSE Ended(i, reqs, "False", TRUE)

\* lines 145-154: the membership check of entry i has ended with answer
NextEntry(name, token, order, i, reqs, answer) ==
    IF answer = "True" THEN Ended(i, reqs, "True", FALSE)
    ELSE IF answer # "False" THEN Ended(i, reqs, answer, FALSE)
    ELSE IF i < Len(order) THEN CheckEntry(name, token, order, i + 1, reqs)
    ELSE Ended(i, reqs, "False", TRUE)

\* lines 150-151
NotPartMessage(name) == <<"User ">> \o name \o <<" is not part of allowed_organizations">>

\* the position of the loop kept in one attribute for all the logins
Resume_shared(l, name, st) ==
    /\ gh_pc' = [gh_pc EXCEPT ![l] = st.pc]
    /\ gh_idx' = [k \in Logins |-> st.idx]
    /\ gh_requests' = [gh_requests EXCEPT ![l] = st.requests]
    /\ gh_result' = [gh_result EXCEPT ![l] = st.result]
    /\ gh_log' = [gh_log EXCEPT ![l] =
                     IF st.warned THEN Append(@, NotPartMessage(name)) ELSE @]

\* the local state st becomes the state of login l
Resume(l, name, st) ==
    /\ gh_pc' = [gh_pc EXCEPT ![l] = st.pc]
    /\ gh_idx' = [gh_idx EXCEPT ![l] = st.idx]
    /\ gh_requests' = [gh_requests EXCEPT ![l] = st.requests]
    /\ gh_result' = [gh_result EXCEPT ![l] = st.result]
    /\ gh_log' = [gh_log EXCEPT ![l] =
                     IF st.warned THEN Append(@, NotPartMessage(name)) ELSE @]

\* lines 134-148: check_allowed is called for login l and runs to its first
\* GET, or to its end
GitHubCheckAllowed(l) ==
    /\ gh_pc[l] = "idle"
    /\ \E name \in GitHubUsernames, model \in GitHubAuthModels(l),
          order \in Orders(allowed_organizations) :
          LET base == BaseCheckAllowed(name, model)
          IN  /\ gh_username' = [gh_username EXCEPT ![l] = name]
              /\ gh_auth_model' = [gh_auth_model EXCEPT ![l] = model]
              /\ gh_base' = [gh_base EXCEPT ![l] = base]
              /\ IF base = "True"
                 THEN /\ Resume(l, name, Ended(0, <<>>, "True", FALSE))
                      /\ UNCHANGED gh_order
                 ELSE IF allowed_organizations = {}
                 THEN /\ Resume(l, name, Ended(0, <<>>, "False", FALSE))
                      /\ UNCHANGED gh_order
                 ELSE /\ gh_order' = [gh_order EXCEPT ![l] = order]
                      /\ Resume(l, name, CheckEntry(name,
                                   model["auth_state"]["token_response"]["access_token"],
                                   order, 1, <<>>))
    /\ UNCHANGED <<gh_answers, gh_url, gh_content, gh_gets,
                   cfg_vars, cl_vars, mb_vars, pf_vars, va_vars>>

\* lines 279-299 and 145-154: the GET of login l is answered, the membership
\* check returns, and the loop goes on to the next GET or check_allowed ends
GitHubMembershipAnswered(l) ==
    /\ gh_pc[l] = "fetching"
    /\ \E answer \in {MembershipAnswer([code |-> code, body |-> body]) :
                         code \in StatusCodes, body \in BodyTexts} :
          /\ gh_answers' = [gh_answers EXCEPT ![l] = Append(@, answer)]
          /\ Resume(l, gh_username[l], NextEntry(gh_username[l],
                       gh_auth_model[l]["auth_state"]["token_response"]["access_token"],
                       gh_order[l], gh_idx[l], gh_requests[l], answer))
    /\ UNCHANGED <<gh_username, gh_auth_model, gh_base, gh_order,
                   gh_url, gh_content, gh_gets,
                   cfg_vars, cl_vars, mb_vars, pf_vars, va_vars>>

InitGitHub ==
    /\ allowed_idps = <<>>
    /\ allowed_users \in {{}, {<<"octocat">>}}
    /\ additional_username_claims = <<"email">>
    /\ allowed_organizations \in OrgSets
    /\ LoginIdle /\ MembershipIdle /\ PaginateIdle /\ OthersIdle

\* one login, run alone
NextGitHub == GitHubCheckAllowed(1) \/ GitHubMembershipAnswered(1)

SpecGitHub == InitGitHub /\ [][NextGitHub]_vars

---------------------------------------------------------------------------
(* Concurrent GitHub logins: each fetches the teams of its user with       *)
(* _paginated_fetch (called at line 202) and is then decided by            *)
(* check_allowed.  The event loop runs one login at a time, from one await *)
(* to the next.                                                            *)

\* the headers of the answers to the page GETs: no Link, a Link to the next
\* page, a Link without a next page
LoginResponseHeaders ==
    {<<>>,
     [h \in {"Link"} |-> <<"<page2>", ";", "rel=\"next\"">>],
     [h \in {"Link"} |-> <<"<page1>", ";", "rel=\"prev\"">>]}

\* the organizations of the concurrent logins
ConcurrentOrgSets == {{}, {<<"o">>, <<"o", ":", "o">>}}

\* the page a server returns to login l for url u: n teams of the user
LoginPageBody(l, u, n) == [i \in 1..n |-> <<AccessToken(l), u, i>>]

\* lines 214-224: _paginated_fetch is called for login l and issues its
\* first GET
LoginPaginatedFetch(l) ==
    /\ gh_pc[l] = "start"
    /\ gh_url' = [gh_url EXCEPT ![l] = TeamsUrl]
    /\ gh_content' = [gh_content EXCEPT ![l] = <<>>]
    /\ gh_gets' = [gh_gets EXCEPT ![l] = 1]
    /\ gh_pc' = [gh_pc EXCEPT ![l] = "paging"]
    /\ UNCHANGED <<gh_username, gh_auth_model, gh_base, gh_order, gh_idx, gh_requests,
                   gh_answers, gh_result, gh_log,
                   cfg_vars, cl_vars, mb_vars, pf_vars, va_vars>>

\* the answers to a page GET of login l for url u: a page of one team, a
\* body that is no JSON, a body that is no UTF-8, the body null, and a GET
\* that fails ("raise")
LoginPageAnswers(l, u) ==
    {[json |-> "list", body |-> LoginPageBody(l, u, 1)],
     [json |-> "invalid", body |-> <<>>],
     [json |-> "undecodable", body |-> <<>>],
     [json |-> "NoneType", body |-> <<>>],
     [json |-> "raise", body |-> <<>>]}

\* lines 217-251: the page GET of login l is answered; the page is added and
\* the next GET is issued, or the teams are returned and check_allowed is
\* next.  When the GET fails (line 217) or the body cannot be loaded and
\* added (lines 226-227) the error ends the login before check_allowed.
\* The servers modelled end the chain of pages at MaxLoginPages.
LoginPageAnswered(l) ==
    /\ gh_pc[l] = "paging"
    /\ \E b \in LoginPageAnswers(l, gh_url[l]), headers \in LoginResponseHeaders :
          /\ gh_gets[l] >= MaxLoginPages => headers = <<>>
          /\ b.json # "list" => headers = <<>>
          /\ IF b.json = "raise" \/ PageLoad(b).exc # ""
             THEN /\ gh_pc' = [gh_pc EXCEPT ![l] = "failed"]
                  /\ UNCHANGED <<gh_url, gh_gets, gh_content>>
             ELSE \E r \in {[body |-> PageLoad(b).val, headers |-> headers]} :
                  \E next_url \in {NextPage(r)} :
                     /\ gh_content' = [gh_content EXCEPT ![l] = Accumulate(@, r.body)]
                     /\ IF next_url = NoVal
                        THEN /\ gh_pc' = [gh_pc EXCEPT ![l] = "idle"]
                             /\ UNCHANGED <<gh_url, gh_gets>>
                        ELSE /\ gh_url' = [gh_url EXCEPT ![l] = next_url]
                             /\ gh_gets' = [gh_gets EXCEPT ![l] = @ + 1]
                             /\ UNCHANGED gh_pc
    /\ UNCHANGED <<gh_username, gh_auth_model, gh_base, gh_order, gh_idx, gh_requests,
                   gh_answers, gh_result, gh_log,
                   cfg_vars, cl_vars, mb_vars, pf_vars, va_vars>>

\* every login is about to fetch the teams of its user
InitConcurrent ==
    /\ allowed_idps = <<>>
    /\ allowed_users = {<<"octocat">>}
    /\ additional_username_claims = <<"email">>
    /\ allowed_organizations \in ConcurrentOrgSets
    /\ LoginIdle /\ MembershipIdle /\ PaginateIdle /\ ValidateIdle
    /\ gh_pc = [l \in Logins |-> "start"]
    /\ gh_url = [l \in Logins |-> <<>>]
    /\ gh_content = [l \in Logins |-> <<>>]
    /\ gh_gets = [l \in Logins |-> 0]
    /\ gh_username = [l \in Logins |-> NoVal]
    /\ gh_auth_model = [l \in Logins |-> NoDict]
    /\ gh_base = [l \in Logins |-> "pending"]
    /\ gh_order = [l \in Logins |-> <<>>]
    /\ gh_idx = [l \in Logins |-> 0]
    /\ gh_requests = [l \in Logins |-> <<>>]
    /\ gh_answers = [l \in Logins |-> <<>>]
    /\ gh_result = [l \in Logins |-> "pending"]
    /\ gh_log = [l \in Logins |-> <<>>]

NextConcurrent ==
    \E l \in Logins :
        \/ LoginPaginatedFetch(l)
        \/ LoginPageAnswered(l)
        \/ GitHubCheckAllowed(l)
        \/ GitHubMembershipAnswered(l)

SpecConcurrent == InitConcurrent /\ [][NextConcurrent]_vars

---------------------------------------------------------------------------
(* CILogonOAuthenticator._validate_allowed_idps: the validator traitlets   *)
(* runs when allowed_idps is assigned.                                     *)

\* the tokens that are runs of scheme characters (letters, digits, + - .)
\* starting with a letter
SchemeTokens == {"https", "http", "urn", "ftp", "HTTPS", "utoronto.ca"}

\* str.lower of a token
Lower(token) == IF token = "HTTPS" THEN "https" ELSE token

\* the keys proposed: entity ids, and strings that are not
KeySamples ==
    {IdpA,
     <<"http", ":", "//idp.a/shibboleth">>,
     <<"urn", ":", "mace:incommon:idp.a">>,
     <<"HTTPS", ":", "//idp.a/shibboleth">>,
     <<"ftp", ":", "//idp.a/shibboleth">>,
     <<"utoronto.ca">>,
     <<"utoronto.ca", ":", "//idp.a/shibboleth">>,
     <<"//idp.a/shibboleth">>,
     <<":", "//idp.a/shibboleth">>,
     <<"//idp.a/shibboleth", ":", "https">>}

\* the values proposed: two that the schema accepts (no action; prefix with
\* its prefix) and one that it rejects (prefix without a prefix)
PolicySamples ==
    {PolicyB,
     Policy([k \in {"username_claim", "action", "prefix"} |->
                CASE k = "username_claim" -> "eppn"
                  [] k = "action" -> "prefix"
                  [] k = "prefix" -> <<"gh">>], NoList),
     Policy([k \in {"username_claim", "action"} |->
                IF k = "username_claim" THEN "eppn" ELSE "prefix"], NoList)}

\* the dicts proposed, as the sequence of their items: at most MaxIdps items
\* with distinct keys
Proposals ==
    {items \in UNION {[1..n -> [key : KeySamples, value : PolicySamples]] : n \in 0..MaxIdps} :
        \A i, j \in DOMAIN items : i # j => items[i].key # items[j].key}

\* the dict of a sequence of items
DictOf(items) ==
    [k \in {items[i].key : i \in DOMAIN items} |->
        (CHOOSE it \in {items[i] : i \in DOMAIN items} : it.key = k).value]

\* jsonschema.validate against schemas/cilogon-schema.yaml: username_claim is
\* required, strip_idp_domain requires domain, prefix requires prefix
SchemaAccepts(policy) ==
    /\ "username_derivation" \in DOMAIN policy
    /\ LET ud == policy["username_derivation"]
       IN  /\ "username_claim" \in DOMAIN ud
           /\ "action" \in DOMAIN ud =>
                 /\ ud["action"] \in {"strip_idp_domain", "prefix"}
                 /\ ud["action"] = "strip_idp_domain" => "domain" \in DOMAIN ud
                 /\ ud["action"] = "prefix" => "prefix" \in DOMAIN ud

\* urlparse(entity_id).scheme: what is before the first ':', in lower case,
\* when that is a non-empty run of scheme characters starting with a letter,
\* else the empty string
urlparse_scheme(entity_id) ==
    LET i == FindFrom(entity_id, ":", 1)
    IN  IF i > 1 /\ \A j \in 1..(i - 1) : entity_id[j] \in SchemeTokens
        THEN [j \in 1..(i - 1) |-> Lower(entity_id[j])]
        ELSE <<>>

\* line 193
accepted_entity_id_scheme == <<<<"urn">>, <<"https">>, <<"http">>>>

\* lines 197-199
EntityIdMessage(entity_id) ==
    <<"Trying to allow an auth provider: ">> \o entity_id
    \o <<", that doesn't look like a valid CILogon EntityID.">>

\* a validator that leaves out the entries whose key it does not accept
RECURSIVE ValidateItems_skip(_, _)
ValidateItems_skip(items, i) ==
    IF i > Len(items) THEN [exc |-> "", val |-> <<>>, log |-> <<>>]
    ELSE IF ~SchemaAccepts(items[i].value)
    THEN [exc |-> "ValidationError", val |-> <<>>, log |-> <<>>]
    ELSE LET rest == ValidateItems_skip(items, i + 1)
         IN  IF InList(urlparse_scheme(items[i].key), accepted_entity_id_scheme)
             THEN [rest EXCEPT !.val = <<items[i]>> \o @]
             ELSE rest

\* lines 183-204, from item i on: [exc, val, log]
RECURSIVE ValidateItems(_, _)
ValidateItems(items, i) ==
    IF i > Len(items) THEN [exc |-> "", val |-> items, log |-> <<>>]
    ELSE IF ~SchemaAccepts(items[i].value)
    THEN [exc |-> "ValidationError", val |-> <<>>, log |-> <<>>]
    ELSE IF ~InList(urlparse_scheme(items[i].key), accepted_entity_id_scheme)
    THEN [exc |-> "ValueError", val |-> <<>>, log |-> <<EntityIdMessage(items[i].key)>>]
    ELSE ValidateItems(items, i + 1)

\* lines 179-206
_validate_allowed_idps(items) == ValidateItems(items, 1)

\* allowed_idps is assigned: the validator runs, and the trait takes the
\* value it returns; when it raises the trait keeps the value it had
AssignAllowedIdps ==
    /\ va_pc = "idle"
    /\ \E items \in Proposals :
          LET r == _validate_allowed_idps(items)
          IN  /\ va_proposal' = items
              /\ va_result' = IF r.exc = "" THEN "returned" ELSE r.exc
              /\ va_log' = va_log \o r.log
              /\ allowed_idps' = IF r.exc = "" THEN DictOf(r.val) ELSE allowed_idps
    /\ va_pc' = "done"
    /\ UNCHANGED <<allowed_users, additional_username_claims, allowed_organizations,
                   cl_vars, mb_vars, pf_vars, gh_vars>>

InitValidate ==
    /\ ConfigUnset /\ LoginIdle /\ MembershipIdle /\ PaginateIdle /\ OthersIdle

SpecValidate == InitValidate /\ [][AssignAllowedIdps]_vars

---------------------------------------------------------------------------
(* Properties of CILogonOAuthenticator.check_allowed (SpecCheckAllowed).   *)

\* the claims of the login that check_allowed decided
Claims == auth_model["auth_state"][user_auth_state_key]

\* check_allowed decided a login that has an auth model and is no admin
DecidedNonAdmin ==
    /\ cl_pc = "done"
    /\ auth_model # NoDict
    /\ ~auth_model["admin"]

\* the login's identity provider is a key of allowed_idps
IdpListed == "idp" \in DOMAIN Claims /\ Claims["idp"] \in DOMAIN allowed_idps

\* the allowed_domains of the login's identity provider are configured
DomainsConfigured ==
    /\ "allowed_domains" \in DOMAIN allowed_idps[Claims["idp"]]
    /\ allowed_idps[Claims["idp"]]["allowed_domains"] # <<>>

\* the value of the claim the login's identity provider names, None when absent
IdpClaimValue ==
    DictGet(Claims, allowed_idps[Claims["idp"]]["username_derivation"]["username_claim"],
            NoVal)

\* the login is one that user_info_to_username gave a username
UsernameResolved == user_info_to_username(Claims).exc = ""

\* v has a first '@' and what follows it is one of the domains
DomainAllowed(v, domains) ==
    \E i \in 1..Len(v) :
        /\ v[i] = "@"
        /\ \A j \in 1..(i - 1) : v[j] # "@"
        /\ \E d \in 1..Len(domains) : domains[d] = SubSeq(v, i + 1, Len(v))

\* C1: an admin is allowed, whatever allowed_idps, allowed_users, the
\* allowed_domains and the claims' idp are: never a 403, never False.
AdminAlwaysAllowed ==
    (cl_pc = "done" /\ auth_model # NoDict /\ auth_model["admin"]) => result = "True"

\* an admin from an identity provider that is not in the table, not a listed user
AdminWitness ==
    /\ cl_pc = "done" /\ auth_model # NoDict /\ auth_model["admin"]
    /\ DOMAIN allowed_idps # {} /\ allowed_users # {}
    /\ username \notin allowed_users
    /\ "idp" \in DOMAIN Claims /\ Claims["idp"] \notin DOMAIN allowed_idps
    /\ result = "True"

\* C2: with allowed_idps configured, a login that is no admin ends with the
\* 403 "identity provider not allowed" exactly when the claims' idp is not a
\* key of allowed_idps, for every username (also one in allowed_users).
IdpNotAllowedOutcome ==
    (DecidedNonAdmin /\ DOMAIN allowed_idps # {} /\ "idp" \in DOMAIN Claims)
        => (result = "HTTPError403_idp_not_allowed"
                <=> Claims["idp"] \notin DOMAIN allowed_idps)

\* a listed user from an identity provider that is not in the table is refused
IdpNotAllowedWitness ==
    /\ DecidedNonAdmin /\ DOMAIN allowed_idps # {} /\ "idp" \in DOMAIN Claims
    /\ Claims["idp"] \notin DOMAIN allowed_idps
    /\ username \in allowed_users
    /\ result = "HTTPError403_idp_not_allowed"

\* C3: for a login that is no admin, whose idp is in the table with
\* allowed_domains configured: a listed user is allowed; any other is allowed
\* exactly when what follows the first '@' of the untransformed username claim
\* is in allowed_domains, and else ends with the 403 "domain not allowed".
DomainDecision ==
    (/\ DecidedNonAdmin /\ DOMAIN allowed_idps # {} /\ IdpListed /\ DomainsConfigured
     /\ UsernameResolved)
        => IF username \in allowed_users THEN result = "True"
           ELSE IF DomainAllowed(IdpClaimValue,
                                 allowed_idps[Claims["idp"]]["allowed_domains"])
                THEN result = "True"
                ELSE result = "HTTPError403_domain_not_allowed"

\* C4: without allowed_idps, a login that is no admin is allowed exactly when
\* its username is in allowed_users if allowed_users is configured (False
\* otherwise), and always allowed if allowed_users is empty too.
NoIdpTableDecision ==
    (DecidedNonAdmin /\ DOMAIN allowed_idps = {})
        => IF allowed_users # {}
           THEN result = (IF username \in allowed_users THEN "True" ELSE "False")
           ELSE result = "True"

\* without a table, a user that is not listed is denied
NoIdpTableWitness ==
    /\ DecidedNonAdmin /\ DOMAIN allowed_idps = {}
    /\ allowed_users # {} /\ username \notin allowed_users
    /\ result = "False"

\* the ends of a login the decision contract knows: Allow, Deny(reason),
\* Error(username_not_found)
DecisionOutcomes ==
    {"True", "False", "HTTPError403_idp_not_allowed",
     "HTTPError403_domain_not_allowed", "HTTPError500"}

\* C5: every call of check_allowed, for a login that user_info_to_username
\* gave a username, ends in one of the decision outcomes; no other error
\* reaches the caller.
NoFaultEscapes ==
    (cl_pc = "done" /\ (auth_model = NoDict \/ UsernameResolved))
        => result \in DecisionOutcomes

---------------------------------------------------------------------------
(* Properties of CILogonOAuthenticator.user_info_to_username (SpecUsername). *)

\* user_info_to_username ran on claims that carry the idp it reads
Resolved == cl_pc = "done" /\ (DOMAIN allowed_idps = {} \/ "idp" \in DOMAIN user_info)

\* the identity provider of the claims is a key of allowed_idps
SelectedIdpListed ==
    /\ DOMAIN allowed_idps # {}
    /\ user_info["idp"] \in DOMAIN allowed_idps

\* the candidate claims: the provider's one claim, else default then fallbacks
Candidates ==
    IF SelectedIdpListed
    THEN <<allowed_idps[user_info["idp"]]["username_derivation"]["username_claim"]>>
    ELSE <<"eppn">> \o additional_username_claims

\* the positions of the candidates that have a non-empty value
WithValue ==
    {i \in 1..Len(Candidates) :
        Candidates[i] \in DOMAIN user_info /\ Len(user_info[Candidates[i]]) > 0}

\* the value of the first candidate that has one
FirstValue ==
    user_info[Candidates[CHOOSE i \in WithValue : \A j \in WithValue : i <= j]]

\* the username the provider's action makes of value v
Transformed(v) ==
    LET ud == allowed_idps[user_info["idp"]]["username_derivation"]
    IN  IF ~SelectedIdpListed \/ "action" \notin DOMAIN ud THEN v
        ELSE IF ud["action"] = "prefix" THEN ud["prefix"] \o <<":">> \o v
        ELSE CHOOSE p \in Strings(ClaimAlphabet, Len(v)) :
                 /\ Len(p) <= Len(v)
                 /\ p = SubSeq(v, 1, Len(p))
                 /\ \A i \in 1..Len(p) : p[i] # "@"
                 /\ (Len(p) = Len(v) \/ v[Len(p) + 1] = "@")

\* C6: when the claims' idp is a key of allowed_idps the username is read
\* from that provider's username_claim alone (no value there: the 500 error,
\* whatever the default and fallback claims hold); otherwise from the first
\* of the default claim and the fallback claims, in order, that has a value.
UsernameClaimSelection ==
    Resolved =>
        /\ username_claims = Candidates
        /\ IF WithValue = {}
           THEN result = "HTTPError500"
           ELSE result = "returned" /\ returned = Transformed(FirstValue)

\* the provider's claim has no value while the default claim has one
ProviderClaimOnlyWitness ==
    /\ Resolved /\ SelectedIdpListed
    /\ Candidates = <<"email">>
    /\ "email" \notin DOMAIN user_info
    /\ "eppn" \in DOMAIN user_info /\ Len(user_info["eppn"]) > 0
    /\ result = "HTTPError500"

\* C7: when no candidate claim has a value, user_info_to_username raises the
\* 500 error and returns no username (none empty, none transformed); the one
\* message it logs holds the candidate claims and the sorted claim names.
UsernameNotFound ==
    (Resolved /\ WithValue = {}) =>
        /\ result = "HTTPError500"
        /\ returned = NoVal
        /\ Len(log) = 1
        /\ log[1]["attempted"] = Candidates
        /\ LET keys == log[1]["keys"]
           IN  /\ {keys[i] : i \in 1..Len(keys)} = DOMAIN user_info
               /\ \A i, j \in 1..Len(keys) :
                     i < j => \E a, b \in 1..Len(ClaimOrder) :
                                 a < b /\ ClaimOrder[a] = keys[i] /\ ClaimOrder[b] = keys[j]

\* the default claim is an empty string and the fallback claim is absent
UsernameNotFoundWitness ==
    /\ Resolved /\ WithValue = {}
    /\ Candidates = <<"eppn", "email">>
    /\ "eppn" \in DOMAIN user_info /\ user_info["eppn"] = <<>>
    /\ DOMAIN user_info = {"eppn", "idp"}
    /\ result = "HTTPError500"

---------------------------------------------------------------------------
(* Properties of _check_membership_allowed_organizations (SpecMembership). *)

\* the endpoint for an entry: the team's when the entry has a ':'
ExpectedEndpoint ==
    LET i == CHOOSE k \in 0..Len(org_team) :
                 /\ k > 0 => org_team[k] = ":"
                 /\ \A j \in 1..Len(org_team) : org_team[j] = ":" => (k > 0 /\ k <= j)
    IN  IF i = 0
        THEN github_api \o <<"/orgs/">> \o org_team \o <<"/members/">> \o username
        ELSE github_api \o <<"/orgs/">> \o SubSeq(org_team, 1, i - 1) \o <<"/teams/">>
             \o SubSeq(org_team, i + 1, Len(org_team)) \o <<"/members/">> \o username

\* C8: a membership check for an entry with at most one ':' issues exactly one
\* GET, to the org endpoint or (an entry with ':') the team endpoint, and
\* returns True exactly when the status is 204; every other status and every
\* body gives False, never an error.
MembershipFailsClosed ==
    (mb_pc = "done" /\ Cardinality({i \in 1..Len(org_team) : org_team[i] = ":"}) <= 1) =>
        /\ Len(requests) = 1
        /\ requests[1] = ExpectedEndpoint
        /\ mb_result = (IF resp.code = 204 THEN "True" ELSE "False")

---------------------------------------------------------------------------
(* Properties of _paginated_fetch (SpecPaginate).                          *)

\* the bodies of pages k.. of the pages received, one after the other
RECURSIVE PagesFrom(_)
PagesFrom(k) == IF k > Len(served) THEN <<>> ELSE served[k].body \o PagesFrom(k + 1)

\* the number of items of pages k..
RECURSIVE ItemsFrom(_)
ItemsFrom(k) == IF k > Len(served) THEN 0 ELSE Len(served[k].body) + ItemsFrom(k + 1)

\* the links of the response in hand
LinksInHand ==
    IF "Link" \in DOMAIN resp.headers THEN parse_header_links(resp.headers["Link"])
    ELSE <<>>

\* the positions of the links tagged "next" among links
Tagged(links) ==
    {i \in 1..Len(links) : "rel" \in DOMAIN links[i] /\ links[i]["rel"] = "next"}

\* the response in hand has no link tagged "next"
NoNextLink == \A links \in {LinksInHand} : Tagged(links) = {}

\* u is the URL of the first link tagged "next" of the response in hand
IsFirstNextUrl(u) ==
    \A links \in {LinksInHand} :
        \E i \in Tagged(links) :
            /\ \A j \in Tagged(links) : i <= j
            /\ u = links[i]["url"]

\* the body of the response in hand is JSON whose value content += takes: an
\* array (a page) or an object
BodyAccumulates == resp.json \in {"list", "dict"}

\* the responses received so far, while they are counted
Answered == Len(served) + (IF pf_pc = "received" THEN 1 ELSE 0)

\* the call returned after N <= MaxPages pages: N GETs, the first to the
\* start URL, and the pages' items in page order
PagesAggregated ==
    (pf_pc = "done" /\ n_gets <= MaxPages) =>
        /\ n_gets = Len(served)
        /\ Len(requests) = n_gets
        /\ requests[1] = TeamsUrl
        /\ \A k \in 1..Len(served) : served[k].url = requests[k]
        /\ content = PagesFrom(1)
        /\ Len(content) = ItemsFrom(1)

\* at most one GET is in flight, and one is exactly while the call waits
\* (a call that raised has left its last GET or response behind)
OneAtATime ==
    (n_gets <= MaxPages /\ pf_pc # "raised") =>
        /\ n_gets - Answered \in {0, 1}
        /\ (n_gets - Answered = 1) <=> (pf_pc = "fetching")

\* with a page in hand: a link tagged "next" makes the next GET, to the
\* URL of the first such link; no such link (or no Link header) ends the call
FollowsNextOnly ==
    (pf_pc = "received" /\ BodyAccumulates) =>
        IF ~NoNextLink
        THEN /\ pf_pc' = "fetching"
             /\ IsFirstNextUrl(url')
             /\ n_gets <= MaxPages => n_gets' = n_gets + 1
             /\ Len(requests) < MaxPages => requests' = Append(requests, url')
        ELSE /\ pf_pc' = "done"
             /\ n_gets' = n_gets /\ requests' = requests

\* a GET is issued only at the start and on a response
GetsOnlyOnResponse == n_gets' # n_gets => pf_pc \in {"idle", "received"}

\* C9: for N pages linked by rel="next", _paginated_fetch issues N GETs, one
\* at a time, each after the first to the "next" URL of the response before,
\* and returns the pages' items in page order; other relations are not
\* followed, and a response without a "next" link ends the loop.
PaginationAggregates ==
    /\ [](PagesAggregated /\ OneAtATime)
    /\ [][FollowsNextOnly /\ GetsOnlyOnResponse]_vars

\* three pages, items on each, and a link with another relation not followed
PaginationWitness ==
    /\ pf_pc = "done" /\ n_gets = 3 /\ Len(served) = 3
    /\ \A k \in 1..3 : Len(served[k].body) > 0
    /\ requests = <<TeamsUrl, Page3, Page2>>
    /\ Len(LinksInHand) = 2

\* C10 as stated: _paginated_fetch terminates, whatever the server answers
\* (a call that ends by raising counts as terminated, so what refutes this
\* is a call that never ends)
PaginatedFetchReturns == <>(pf_pc \in {"done", "raised"})

\* C10: _paginated_fetch ends at the first response without a Link header
\* or a link tagged "next", returning what it accumulated, and ends before
\* that only by raising, when a GET fails or a body cannot be loaded and
\* added; nothing else ends it: it bounds the number of pages by nothing.
ReturnsAfterLastPage ==
    /\ []<>(pf_pc # "received")
    /\ [][(pf_pc = "received" /\ BodyAccumulates /\ NoNextLink) =>
            (pf_pc' = "done" /\ content' = content \o resp.body /\ pf_error' = "")]_vars
    /\ [][(pf_pc = "received" /\ ~BodyAccumulates) =>
            (pf_pc' = "raised" /\ pf_error' \in {"UnicodeDecodeError", "JSONDecodeError", "TypeError"})]_vars
    /\ [][(pf_pc = "received" /\ BodyAccumulates /\ ~NoNextLink) => pf_pc' = "fetching"]_vars
    /\ [][(pf_pc = "fetching" /\ pf_pc' = "raised") => pf_error' = "HTTPClientError"]_vars
    /\ [][(pf_pc = "idle" \/ pf_pc = "fetching") => ~(pf_pc' = "done")]_vars
    /\ [][pf_pc = "idle" => ~(pf_pc' = "raised")]_vars

\* the call returned after two pages
ReturnsWitness ==
    /\ pf_pc = "done" /\ n_gets = 2
    /\ NoNextLink

---------------------------------------------------------------------------
(* Properties of GitHubOAuthenticator.check_allowed (SpecGitHub).          *)

\* the positions at which the membership checks of login l answered True
Matches(l) == {i \in 1..Len(gh_answers[l]) : gh_answers[l][i] = "True"}

\* the GETs of login l went to the entries of the set in the order of the
\* loop, one at a time
OneEntryAfterAnother(l) ==
    /\ Len(gh_answers[l]) <= Len(gh_requests[l])
    /\ Len(gh_requests[l]) <= Len(gh_answers[l]) + 1
    /\ Len(gh_requests[l]) <= Len(gh_order[l])
    /\ \A i \in 1..Len(gh_requests[l]) :
          gh_requests[l][i].url = MembershipUrl(gh_order[l][i], gh_username[l]).val

\* C11: the entries of allowed_organizations are checked one after another,
\* and the first membership check that returns True ends check_allowed with
\* True at once: no GET is issued for an entry after it, so the GETs number
\* at most the position of the first match in the order of the loop.
ShortCircuitOnFirstMatch ==
    \A l \in Logins :
        /\ OneEntryAfterAnother(l)
        /\ \A i \in Matches(l) :
              /\ i = Len(gh_answers[l])
              /\ Len(gh_requests[l]) = i
              /\ gh_pc[l] = "done"
              /\ gh_result[l] = "True"

\* a login allowed by the first of two entries: the second was never asked
ShortCircuitWitness ==
    \E l \in Logins :
        /\ gh_pc[l] = "done"
        /\ gh_base[l] = "False"
        /\ Len(gh_order[l]) = 2
        /\ gh_answers[l] = <<"True">>
        /\ Len(gh_requests[l]) = 1
        /\ gh_result[l] = "True"

\* every entry of allowed_organizations has at most one ':'
EntriesWellFormed ==
    \A e \in allowed_organizations : Cardinality({i \in 1..Len(e) : e[i] = ":"}) <= 1

\* C12: check_allowed returns True without a GET when the base decision
\* allows; when the base decision denies it returns True exactly when
\* allowed_organizations is non-empty and a membership check returned True,
\* and False otherwise.
OrganizationComposition ==
    \A l \in Logins :
        (gh_pc[l] = "done" /\ EntriesWellFormed) =>
            IF gh_base[l] = "True"
            THEN gh_result[l] = "True" /\ gh_requests[l] = <<>>
            ELSE gh_result[l] = (IF allowed_organizations # {} /\ Matches(l) # {}
                                 THEN "True" ELSE "False")

---------------------------------------------------------------------------
(* Properties of _validate_allowed_idps (SpecValidate).                    *)

\* the key starts with https:, http: or urn:, in any case of the letters
HasAcceptedScheme(key) ==
    /\ Len(key) >= 2
    /\ key[2] = ":"
    /\ key[1] \in {"https", "http", "urn", "HTTPS"}

\* the keys of the proposed dict
ProposedKeys == {va_proposal[i].key : i \in DOMAIN va_proposal}

\* C13: an assignment of allowed_idps is accepted only if every key has the
\* scheme https, http or urn; a proposal with any other key is rejected with
\* an error whatever its other entries are, and the trait keeps its value; an
\* accepted proposal is installed with its keys and values as proposed.
KeysValidated ==
    va_pc = "done" =>
        /\ va_result = "returned" => \A k \in ProposedKeys : HasAcceptedScheme(k)
        /\ (\E k \in ProposedKeys : ~HasAcceptedScheme(k)) =>
              /\ va_result \in {"ValueError", "ValidationError"}
              /\ allowed_idps = <<>>
        /\ va_result = "returned" =>
              /\ DOMAIN allowed_idps = ProposedKeys
              /\ \A i \in DOMAIN va_proposal :
                    allowed_idps[va_proposal[i].key] = va_proposal[i].value

\* a proposal whose first entry is fine and whose second key is a bare
\* domain name was rejected with the ValueError of the validator
BareDomainRejectedWitness ==
    /\ va_pc = "done"
    /\ Len(va_proposal) = 2
    /\ HasAcceptedScheme(va_proposal[1].key)
    /\ va_proposal[2].key = <<"utoronto.ca">>
    /\ va_result = "ValueError"
    /\ Len(va_log) = 1
    /\ allowed_idps = <<>>

---------------------------------------------------------------------------
(* The usernames user_info_to_username returns (SpecUsername).             *)

\* C15: every username user_info_to_username returns is a non-empty string,
\* whatever the claims and the derivation action are.
ReturnedUsernameNonEmpty ==
    (cl_pc = "done" /\ result = "returned") => (returned # NoVal /\ returned # <<>>)

---------------------------------------------------------------------------
(* Properties of the concurrent logins (SpecConcurrent).                   *)

\* how check_allowed ends for the inputs of login l when it runs alone and
\* its membership GETs get the answers `answers`, from entry i on; "pending"
\* while the answer of an entry is missing
RECURSIVE DecisionFrom(_, _, _)
DecisionFrom(l, answers, i) ==
    IF i > Len(gh_order[l]) THEN "False"
    ELSE IF MembershipUrl(gh_order[l][i], gh_username[l]).exc # ""
    THEN MembershipUrl(gh_order[l][i], gh_username[l]).exc
    ELSE IF i > Len(answers) THEN "pending"
    ELSE IF answers[i] = "False" THEN DecisionFrom(l, answers, i + 1)
    ELSE answers[i]

\* the decision of login l run alone with its inputs and its answers
DecisionAlone(l) ==
    IF gh_pc[l] \in {"start", "paging", "idle", "failed"} THEN "pending"
    ELSE IF gh_base[l] = "True" THEN "True"
    ELSE IF allowed_organizations = {} THEN "False"
    ELSE DecisionFrom(l, gh_answers[l], 1)

\* what login l holds comes from its own inputs and its own answers: the
\* decision, the GETs (its username, its token, its entries), the teams
OwnValuesOnly(l) ==
    /\ gh_result[l] = DecisionAlone(l)
    /\ gh_pc[l] = "done" <=> gh_result[l] # "pending"
    /\ \A i \in 1..Len(gh_requests[l]) :
          /\ gh_requests[l][i].token = AccessToken(l)
          /\ gh_requests[l][i].url = MembershipUrl(gh_order[l][i], gh_username[l]).val
    /\ Len(gh_requests[l]) \in {Len(gh_answers[l]), Len(gh_answers[l]) + 1}
    /\ \A i \in 1..Len(gh_content[l]) : gh_content[l][i][1] = AccessToken(l)
    /\ gh_pc[l] \in {"idle", "fetching", "done"} => Len(gh_content[l]) = gh_gets[l]

\* the locals of login l
LoginLocals(l) ==
    <<gh_pc[l], gh_url[l], gh_content[l], gh_gets[l], gh_username[l], gh_auth_model[l],
      gh_base[l], gh_order[l], gh_idx[l], gh_requests[l], gh_answers[l], gh_result[l],
      gh_log[l]>>

\* a step leaves the configuration alone and changes the locals of one login
OneLoginSteps ==
    /\ UNCHANGED cfg_vars
    /\ \E l \in Logins : \A k \in Logins \ {l} : LoginLocals(k)' = LoginLocals(k)

\* C14: with the logins interleaved at their GETs, each login's decision is
\* the decision it gets alone with the same inputs and answers; no step
\* writes allowed_idps, allowed_users or allowed_organizations, and a step of
\* one login changes nothing another login holds.
LoginsIndependent ==
    /\ [](\A l \in Logins : OwnValuesOnly(l))
    /\ [][OneLoginSteps]_vars

\* two logins whose second membership GETs were in flight at the same time,
\* and that ended differently
InterleavedWitness ==
    /\ gh_pc[1] = "done" /\ gh_pc[2] = "fetching"
    /\ gh_result[1] = "True"
    /\ Len(gh_answers[1]) = 2 /\ Len(gh_answers[2]) = 1 /\ Len(gh_requests[2]) = 2
    /\ gh_order[1] # gh_order[2]
    /\ gh_gets[1] = 2 /\ gh_gets[2] = 1

=============================================================================
